---- MODULE Spec2Model ----
(***************************************************************************)
(* Model of the link-validation engine of telegram-linkstools (main.py):   *)
(* RateLimiter, LinkChecker (check_link / run / stop) and the result       *)
(* handlers of TelegramToolsManager.                                       *)
(*                                                                         *)
(* Time is a discrete clock `now`.  It is only observable where the code   *)
(* reads it (time.time(), datetime.now()) or sleeps, so it advances in     *)
(* those steps by a nondeterministic amount.  Strings are sequences of     *)
(* one-character strings.                                                  *)
(***************************************************************************)
EXTENDS Integers, Sequences, FiniteSets, TLC

(* ------------------------------ bounds -------------------------------- *)
\* largest policy (max_requests, time_window) of the limiter-only
\* specifications
PolicyRequests == 2
PolicyWindow == 2
\* RateLimiter(max_requests=20, time_window=60) of LinkChecker, scaled down
CheckerRequests == 2
CheckerWindow == 1
\* the clock stops at MaxTime; one step lets at most MaxElapse ticks pass
MaxTime == 3
MaxElapse == 1
\* sequential acquire() calls made by the limiter-only specification
MaxCalls == 4
\* threads calling acquire() in the concurrent specification
NumCallers == 2
\* longest list of links submitted to one run
MaxLinks == 3
\* signals that may wait in the GUI thread's event queue
MaxQueue == 1
\* longest run of one repeated link (more links than pool workers)
MaxBatch == 6
\* longest raw string given to the normalizer, longest text of a page element
MaxLen == 4
MaxText == 2
\* most lines typed into the check input; `len(links) > 50`, scaled down
MaxInput == 3
ConfirmOver == 2

VARIABLES
    now,            \* wall clock (time.time())
    max_requests,   \* RateLimiter.max_requests
    time_window,    \* RateLimiter.time_window
    requests,       \* RateLimiter.requests: list of admission timestamps
    apc,            \* per caller: position inside acquire()
    acur,           \* per caller: local current_time
    awake,          \* per caller: earliest clock value at which sleep ends
    admits,         \* history: the last max_requests+1 timestamps appended
    calls,          \* number of acquire() calls started (limiter-only specs)
    norm,           \* a raw link followed by its successive normalizations
    parsed,         \* a fetch outcome and the result check_link builds from it
    links,          \* LinkChecker.links
    is_running,     \* LinkChecker.is_running
    idx,            \* position of the for loop of run() in links
    pc,             \* position of the worker thread in run() / check_link()
    link,           \* local variable link of check_link()
    result,         \* value returned by check_link()
    inflight,       \* positions whose requests.get() has not returned yet
    queue,          \* signals emitted by the thread, not yet handled by the GUI
    check_results,  \* TelegramToolsManager.check_results
    stop_enabled,   \* stop_check_btn.isEnabled()
    ui_finished,    \* check_finished() has run
    signals,        \* history: terminal signals emitted, in order
    fetched,        \* history: positions for which requests.get() was called
    emits,          \* history: positions for which progress_signal was emitted
    response,       \* history: outcome of the fetch of the current position
    trace,          \* history: steps taken for the current position
    stop_at,        \* history: where the worker was when stop() was called
    saved,          \* history: check_results when stop() was called / run() failed
    latest,         \* history: per original link, the result emitted last
    ui              \* start_check: its input, its position and what it has done

rlvars == <<now, max_requests, time_window, requests, apc, acur, awake, admits>>
runvars == <<links, is_running, idx, pc, link, result, inflight, queue,
             check_results, stop_enabled, ui_finished, signals, fetched, emits,
             response, trace, stop_at, saved, latest, ui>>
aux == <<calls, norm, parsed>>
vars == <<rlvars, aux, runvars>>

Callers == 1..NumCallers

Max(a, b) == IF a >= b THEN a ELSE b
Min(a, b) == IF a <= b THEN a ELSE b

(* --------------------------- RateLimiter ------------------------------ *)
\* self.requests = [] ; no caller is inside acquire()
RateLimiterInit(mr, tw) ==
    /\ max_requests = mr
    /\ time_window = tw
    /\ requests = <<>>
    /\ apc = [c \in Callers |-> "idle"]
    /\ acur = [c \in Callers |-> 0]
    /\ awake = [c \in Callers |-> 0]
    /\ admits = <<>>

\* while-condition of the purge loop:
\*   self.requests and self.requests[0] <= current_time - self.time_window
Expired(reqs, cur, tw) == reqs # <<>> /\ Head(reqs) <= cur - tw

\* sleep_time = self.requests[0] + self.time_window - current_time
SleepTime(reqs, cur, tw) == Head(reqs) + tw - cur

\* variant: the limit test is off by one (>)
AtLimitOffByOne(reqs, mr) == Len(reqs) > mr

\* if len(self.requests) >= self.max_requests
AtLimit(reqs, mr) == Len(reqs) >= mr

\* the n most recent admissions
LastAdmits(s, n) == IF Len(s) > n THEN SubSeq(s, Len(s) - n + 1, Len(s)) ELSE s

\* entry of acquire() (also the recursive call after the sleep)
AcqCall(c) ==
    /\ apc[c] \in {"idle", "ret"}
    /\ apc' = [apc EXCEPT ![c] = "read"]
    /\ UNCHANGED <<now, max_requests, time_window, requests, acur, awake, admits>>

\* current_time = time.time()
AcqRead(c) ==
    /\ apc[c] = "read"
    /\ \E d \in 0..MaxElapse :
         /\ now + d <= MaxTime
         /\ now' = now + d
         /\ acur' = [acur EXCEPT ![c] = now + d]
    /\ apc' = [apc EXCEPT ![c] = "purge"]
    /\ UNCHANGED <<max_requests, time_window, requests, awake, admits>>

\* one evaluation of the while loop: pop(0) or leave the loop
AcqPurge(c) ==
    /\ apc[c] = "purge"
    /\ IF Expired(requests, acur[c], time_window)
         THEN /\ requests' = Tail(requests)
              /\ apc' = apc
         ELSE /\ requests' = requests
              /\ apc' = [apc EXCEPT ![c] = "decide"]
    /\ UNCHANGED <<now, max_requests, time_window, acur, awake, admits>>

\* the limit test and the computation of sleep_time
AcqDecide(c) ==
    /\ apc[c] = "decide"
    /\ IF AtLimit(requests, max_requests)
          /\ SleepTime(requests, acur[c], time_window) > 0
         THEN /\ apc' = [apc EXCEPT ![c] = "sleep"]
              /\ awake' = [awake EXCEPT ![c] =
                              now + SleepTime(requests, acur[c], time_window)]
         ELSE /\ apc' = [apc EXCEPT ![c] = "append"]
              /\ awake' = awake
    /\ UNCHANGED <<now, max_requests, time_window, requests, acur, admits>>

\* variant: the caller is admitted as soon as it wakes
AfterSleepAdmitted == "append"

\* return self.acquire(): the call starts over at time.time()
AfterSleep == "read"

\* time.sleep(sleep_time) returns (never early); return self.acquire()
AcqWake(c) ==
    /\ apc[c] = "sleep"
    /\ \E d \in 0..MaxElapse :
         /\ Max(now, awake[c]) + d <= MaxTime
         /\ now' = Max(now, awake[c]) + d
    /\ apc' = [apc EXCEPT ![c] = AfterSleep]
    /\ UNCHANGED <<max_requests, time_window, requests, acur, awake, admits>>

\* self.requests.append(current_time); return True
AcqAppend(c) ==
    /\ apc[c] = "append"
    /\ requests' = Append(requests, acur[c])
    /\ admits' = LastAdmits(Append(admits, acur[c]), max_requests + 1)
    /\ apc' = [apc EXCEPT ![c] = "ret"]
    /\ UNCHANGED <<now, max_requests, time_window, acur, awake>>

AcqStep(c) ==
    \/ AcqRead(c)
    \/ AcqPurge(c)
    \/ AcqDecide(c)
    \/ AcqWake(c)
    \/ AcqAppend(c)

(* ------------------------------ strings ------------------------------- *)
StartsWith(s, p) == Len(s) >= Len(p) /\ SubSeq(s, 1, Len(p)) = p

RECURSIVE LStrip(_)
LStrip(s) == IF s # <<>> /\ Head(s) = " " THEN LStrip(Tail(s)) ELSE s

RECURSIVE RStrip(_)
RStrip(s) ==
    IF s # <<>> /\ s[Len(s)] = " " THEN RStrip(SubSeq(s, 1, Len(s) - 1)) ELSE s

\* str.strip()
Strip(s) == RStrip(LStrip(s))

\* all strings over alphabet of length at most n
RECURSIVE StringsUpTo(_, _)
StringsUpTo(alphabet, n) ==
    IF n = 0 THEN {<<>>}
    ELSE LET shorter == StringsUpTo(alphabet, n - 1)
         IN  shorter \cup {Append(t, ch) : t \in shorter, ch \in alphabet}

(* --------------------------- normalization ---------------------------- *)
\* variant: the prefix lacks the scheme
HostPathNoScheme == <<"t", ".", "m", "e", "/">>

\* 'https://t.me/'
HostPath == <<"h", "t", "t", "p", "s", ":", "/", "/", "t", ".", "m", "e", "/">>

\* 'http'
HttpPrefix == <<"h", "t", "t", "p">>

\* check_link, "standardize link format"
Normalize(l) ==
    IF StartsWith(l, <<"@">>) THEN HostPath \o SubSeq(l, 2, Len(l))
    ELSE IF ~StartsWith(l, HttpPrefix) THEN HostPath \o l
    ELSE l

(* ----------------------- fetch and page parsing ----------------------- *)
\* soup.find(...) result: a tag with its text, or None
Tag(text) == [found |-> TRUE, text |-> text]
NoTag == [found |-> FALSE, text |-> <<>>]
TagsOf(texts) == {NoTag} \cup {Tag(t) : t \in texts}

\* str(e) of the exceptions requests.get / BeautifulSoup may raise
Excs == {"timeout"}

\* address a request may be redirected to
RedirectTarget == HostPath \o <<"s", "/", "x">>

\* outcomes of requests.get(link) followed by the two soup.find calls:
\* exc # "" means that an exception was raised
Responses(l, texts) ==
    [exc : Excs \cup {""}, url : {l, RedirectTarget},
     title : TagsOf(texts), extra : TagsOf(texts)]

\* '未知', '错误'
Unknown == <<"?">>
ErrorName == <<"!">>

\* variant: a tag counts as true only when it has contents
TruthyByLength(tag) == tag.found /\ tag.text # <<>>

\* truth value of a soup.find result (`if title`, `if subscribers`)
Truthy(tag) == tag.found

\* result['状态'] = '有效' if title else '无效'
StatusOf(title) ==
    IF Truthy(title) THEN [kind |-> "valid", msg |-> ""]
    ELSE [kind |-> "invalid", msg |-> ""]

\* variant: the except branch keeps the default status of the try branch
ErrorResultAsInvalid(l, e, t) ==
    [link |-> l, name |-> ErrorName, members |-> Unknown,
     status |-> [kind |-> "invalid", msg |-> ""], checked |-> t, redirect |-> <<>>]

\* the dictionary built in the except branch of check_link
ErrorResult(l, e, t) ==
    [link |-> l, name |-> ErrorName, members |-> Unknown,
     status |-> [kind |-> "error", msg |-> e], checked |-> t, redirect |-> <<>>]

\* the dictionary built in the try branch of check_link
PageResult(l, resp, t) ==
    [link |-> l,
     name |-> IF Truthy(resp.title) THEN Strip(resp.title.text) ELSE Unknown,
     members |-> IF Truthy(resp.extra) THEN Strip(resp.extra.text) ELSE Unknown,
     status |-> StatusOf(resp.title),
     checked |-> t,
     redirect |-> IF resp.url # l THEN resp.url ELSE <<>>]

\* try / except of check_link applied to one fetch outcome
CheckLinkResult(l, resp, t) ==
    IF resp.exc # "" THEN ErrorResult(l, resp.exc, t) ELSE PageResult(l, resp, t)

(* ------------------------ LinkChecker: state -------------------------- *)
\* ThreadPoolExecutor(max_workers=5)
MaxWorkers == 5

\* links the caller may submit, '@a' and 'a': two originals, one address
RawLinks == {<<"@", "a">>, <<"a">>}
LinkLists == UNION {[1..n -> RawLinks] : n \in 1..MaxLinks}
BatchLists == {[i \in 1..n |-> <<"@", "a">>] : n \in 1..MaxBatch}

\* what the remote site answers during a run: a page with both elements,
\* a page with neither, or a failed request
EngineTexts == {<<" ", "x">>}
EngineResponses(l) ==
    {r \in Responses(l, EngineTexts) :
        r.url = l /\ r.extra = r.title /\ (r.exc # "" => ~r.title.found)}

NoPure == norm = <<>> /\ parsed = <<>>

\* neither stop() nor a failure has happened
NoSaved == [stop |-> <<>>, fail |-> <<>>]
\* start_check has not been called
NoUi == [pc |-> "none", text |-> <<>>, wired |-> {}]
NoStop == [idx |-> 0, phase |-> "none", apc |-> "idle", nf |-> 0, ne |-> 0]

\* LinkChecker not constructed (limiter-only and pure-function specifications)
NoRun ==
    /\ links = <<>>
    /\ is_running = FALSE
    /\ idx = 0
    /\ pc = "none"
    /\ link = <<>>
    /\ result = <<>>
    /\ inflight = {}
    /\ queue = <<>>
    /\ check_results = <<>>
    /\ stop_enabled = FALSE
    /\ ui_finished = FALSE
    /\ signals = <<>>
    /\ fetched = <<>>
    /\ emits = <<>>
    /\ response = <<>>
    /\ trace = <<>>
    /\ stop_at = NoStop
    /\ saved = NoSaved
    /\ latest = <<>>
    /\ ui = NoUi

\* A started LinkChecker as start_check would set it up: check_results.clear(),
\* LinkChecker(links), progress_signal connected to update_check_result,
\* finished_signal to check_finished, thread running.  error_signal has no
\* slot (the class defines no handle_check_error), so it is only recorded.
Started(lists) ==
    /\ now = 0
    /\ calls = 0
    /\ NoPure
    /\ RateLimiterInit(CheckerRequests, CheckerWindow)
    /\ links \in lists
    /\ is_running = TRUE
    /\ idx = 1
    /\ pc = "loop"
    /\ link = <<>>
    /\ result = <<>>
    /\ inflight = {}
    /\ queue = <<>>
    /\ check_results = <<>>
    /\ stop_enabled = TRUE
    /\ ui_finished = FALSE
    /\ signals = <<>>
    /\ fetched = <<>>
    /\ emits = <<>>
    /\ response = <<>>
    /\ trace = <<>>
    /\ stop_at = NoStop
    /\ saved = NoSaved
    /\ latest = <<>>
    /\ ui = NoUi

Init == Started(LinkLists)

\* a batch of one repeated link, longer than the pool has workers
InitBatch == Started(BatchLists)

(* ---------------------- LinkChecker: worker thread -------------------- *)
\* variant: the link is normalized before the limiter is acquired
CheckLinkOrderNormFirst == <<"norm", "acquire", "get">>

\* order of the steps of check_link after the is_running test
CheckLinkOrder == <<"acquire", "norm", "get">>

StepAfter(p) ==
    LET i == CHOOSE k \in 1..Len(CheckLinkOrder) : CheckLinkOrder[k] = p
    IN  IF i < Len(CheckLinkOrder) THEN CheckLinkOrder[i + 1] ELSE "wait"

\* variant: check_link does not test the flag
CheckLinkGuardSkipped(running) == TRUE

\* `if not self.is_running` of run() and of check_link()
CheckLinkGuard(running) == running
RunGuard(running) == running

\* for link in self.links: if not self.is_running: break
LoopTop ==
    /\ pc = "loop"
    /\ IF idx <= Len(links) /\ RunGuard(is_running)
         THEN /\ pc' = "check"
              /\ link' = Strip(links[idx])
         ELSE /\ pc' = "finish"
              /\ link' = link
    /\ trace' = <<>>
    /\ UNCHANGED <<rlvars, aux, links, is_running, idx, result, inflight, queue,
                   check_results, stop_enabled, ui_finished, signals, fetched,
                   emits, response, stop_at, saved, latest, ui>>

\* check_link: if not self.is_running: return None
CheckLink ==
    /\ pc = "check"
    /\ pc' = IF CheckLinkGuard(is_running) THEN CheckLinkOrder[1] ELSE "emit"
    /\ UNCHANGED <<rlvars, aux, links, is_running, idx, link, result, inflight,
                   queue, check_results, stop_enabled, ui_finished, signals,
                   fetched, emits, response, trace, stop_at, saved, latest, ui>>

runrest == <<links, is_running, idx, link, result, inflight, queue,
             check_results, stop_enabled, ui_finished, signals, fetched, emits,
             response, stop_at, saved, latest, ui>>

\* self.rate_limiter.acquire()
AcquireCall ==
    /\ pc = "acquire"
    /\ apc[1] = "idle"
    /\ AcqCall(1)
    /\ trace' = Append(trace, "acquire")
    /\ UNCHANGED <<aux, pc, runrest>>

AcquireRead == pc = "acquire" /\ AcqRead(1) /\ UNCHANGED <<aux, pc, trace, runrest>>
AcquirePurge == pc = "acquire" /\ AcqPurge(1) /\ UNCHANGED <<aux, pc, trace, runrest>>
AcquireDecide == pc = "acquire" /\ AcqDecide(1) /\ UNCHANGED <<aux, pc, trace, runrest>>
AcquireWake == pc = "acquire" /\ AcqWake(1) /\ UNCHANGED <<aux, pc, trace, runrest>>
AcquireAppend == pc = "acquire" /\ AcqAppend(1) /\ UNCHANGED <<aux, pc, trace, runrest>>

\* acquire() returns True
AcquireReturn ==
    /\ pc = "acquire"
    /\ apc[1] = "ret"
    /\ apc' = [apc EXCEPT ![1] = "idle"]
    /\ acur' = [acur EXCEPT ![1] = 0]
    /\ awake' = [awake EXCEPT ![1] = 0]
    /\ pc' = StepAfter("acquire")
    /\ UNCHANGED <<now, max_requests, time_window, requests, admits,
                   aux, trace, runrest>>

\* the if / elif that rewrites link
NormalizeLink ==
    /\ pc = "norm"
    /\ link' = Normalize(link)
    /\ trace' = Append(trace, "normalize")
    /\ pc' = StepAfter("norm")
    /\ UNCHANGED <<rlvars, aux, links, is_running, idx, result, inflight, queue,
                   check_results, stop_enabled, ui_finished, signals, fetched,
                   emits, response, stop_at, saved, latest, ui>>

\* requests.get(link, ...) is called
HttpSend ==
    /\ pc = "get"
    /\ inflight' = inflight \cup {idx}
    /\ fetched' = Append(fetched, idx)
    /\ trace' = Append(trace, "fetch")
    /\ pc' = StepAfter("get")
    /\ UNCHANGED <<rlvars, aux, links, is_running, idx, link, result, queue,
                   check_results, stop_enabled, ui_finished, signals, emits,
                   response, stop_at, saved, latest, ui>>

\* variant: the request is handed off and never waited for
ReturnedNever(fl, i) == fl

\* the request is over for position i
Returned(fl, i) == fl \ {i}

\* requests.get returns or raises; the page is parsed; check_link returns
HttpReturn ==
    /\ pc = "wait"
    /\ \E d \in 0..MaxElapse, resp \in EngineResponses(link) :
         /\ now + d <= MaxTime
         /\ now' = now + d
         /\ result' = <<CheckLinkResult(link, resp, now + d)>>
         /\ response' = <<resp>>
    /\ inflight' = Returned(inflight, idx)
    /\ pc' = "emit"
    /\ UNCHANGED <<max_requests, time_window, requests, apc, acur, awake, admits,
                   aux, links, is_running, idx, link, queue, check_results,
                   stop_enabled, ui_finished, signals, fetched, emits, trace,
                   stop_at, saved, latest, ui>>

Progress(key, res) == [sig |-> "progress", key |-> key, res |-> res]
Finished == [sig |-> "finished", key |-> <<>>, res |-> <<>>]

\* variant: only valid results are reported
EmittableValidOnly(res) == res # <<>> /\ res[1].status.kind = "valid"

\* `if result`
Emittable(res) == res # <<>>

\* if result: self.progress_signal.emit(link, result)
Emit ==
    /\ pc = "emit"
    /\ IF Emittable(result)
         THEN /\ Len(queue) < MaxQueue
              /\ queue' = Append(queue, Progress(links[idx], result))
              /\ emits' = Append(emits, idx)
              /\ trace' = Append(trace, "emit")
              /\ latest' = [k \in DOMAIN latest \cup {links[idx]} |->
                               IF k = links[idx] THEN result[1] ELSE latest[k]]
         ELSE UNCHANGED <<queue, emits, trace, latest>>
    /\ idx' = idx + 1
    /\ pc' = "loop"
    /\ link' = <<>>
    /\ result' = <<>>
    /\ response' = <<>>
    /\ UNCHANGED <<rlvars, aux, links, is_running, inflight,
                   check_results, stop_enabled, ui_finished, signals, fetched,
                   stop_at, saved, ui>>

\* self.finished_signal.emit()
Finish ==
    /\ pc = "finish"
    /\ Len(queue) < MaxQueue
    /\ queue' = Append(queue, Finished)
    /\ signals' = Append(signals, "finished")
    /\ pc' = "done"
    /\ UNCHANGED <<rlvars, aux, links, is_running, idx, link, result, inflight,
                   check_results, stop_enabled, ui_finished, fetched, emits,
                   response, trace, stop_at, saved, latest, ui>>

\* variant: code after finished_signal.emit() is inside the try as well
RaisePointsAfterFinished == {"loop", "check", "emit", "done"}

\* statements of run() an exception can escape from: the for loop, check_link
\* before its own try block, progress_signal.emit
RaisePoints == {"loop", "check", "emit"}

\* except Exception as e: self.error_signal.emit(str(e)), for an exception
\* raised in run() outside the try block of check_link
RunRaises ==
    /\ pc \in RaisePoints
    /\ signals' = Append(signals, "error")
    /\ pc' = "done"
    /\ saved' = [saved EXCEPT !.fail = <<check_results>>]
    /\ UNCHANGED <<rlvars, aux, links, is_running, idx, link, result, inflight,
                   queue, check_results, stop_enabled, ui_finished, fetched,
                   emits, response, trace, stop_at, latest, ui>>

(* ------------------------------ GUI thread ---------------------------- *)
\* how far the worker is with the current position: not past the is_running
\* test of check_link, past it, request sent, or response received
Phase(p) ==
    IF p \in {"acquire", "norm", "get"} THEN "passed"
    ELSE IF p = "wait" THEN "sent"
    ELSE IF p = "emit" THEN "got"
    ELSE "idle"

\* variant: stop() assigns to a misspelt attribute, is_running stays True
StopFlagUntouched == TRUE

\* self.is_running = False
StopFlag == FALSE

\* stop_check: self.checker.stop(); stop_check_btn.setEnabled(False)
Stop ==
    /\ stop_enabled
    /\ is_running' = StopFlag
    /\ stop_enabled' = FALSE
    /\ stop_at' = [idx |-> idx, phase |-> Phase(pc), apc |-> apc[1],
                    nf |-> Len(fetched), ne |-> Len(emits)]
    /\ saved' = [saved EXCEPT !.stop = <<check_results>>]
    /\ UNCHANGED <<rlvars, aux, links, idx, pc, link, result, inflight, queue,
                   check_results, ui_finished, signals, fetched, emits, response,
                   trace, latest, ui>>

\* variant: the dictionary is rebuilt from the one result
RecordOnly(cr, key, res) == [k \in {key} |-> res]

\* variant: a key that is already present keeps its first result
RecordFirstWins(cr, key, res) ==
    [k \in DOMAIN cr \cup {key} |-> IF k \in DOMAIN cr THEN cr[k] ELSE res]

\* variant: the entry is stored under the canonical address of the result
RecordByAddress(cr, key, res) ==
    [k \in DOMAIN cr \cup {res.link} |-> IF k = res.link THEN res ELSE cr[k]]

\* self.check_results[link] = result
Record(cr, key, res) ==
    [k \in DOMAIN cr \cup {key} |-> IF k = key THEN res ELSE cr[k]]

\* the GUI thread handles the oldest queued signal:
\* update_check_result(link, result) or check_finished()
Deliver ==
    /\ queue # <<>>
    /\ queue' = Tail(queue)
    /\ IF Head(queue).sig = "progress"
         THEN /\ check_results' = Record(check_results, Head(queue).key, Head(queue).res[1])
              /\ ui_finished' = ui_finished
         ELSE /\ check_results' = check_results
              /\ ui_finished' = TRUE
    /\ UNCHANGED <<rlvars, aux, links, is_running, idx, pc, link, result,
                   inflight, stop_enabled, signals, fetched, emits, response,
                   trace, stop_at, saved, latest, ui>>

Next ==
    \/ LoopTop
    \/ CheckLink
    \/ AcquireCall
    \/ AcquireRead
    \/ AcquirePurge
    \/ AcquireDecide
    \/ AcquireWake
    \/ AcquireAppend
    \/ AcquireReturn
    \/ NormalizeLink
    \/ HttpSend
    \/ HttpReturn
    \/ Emit
    \/ Finish
    \/ RunRaises
    \/ Stop
    \/ Deliver

Spec == Init /\ [][Next]_vars

NextBatch ==
    \/ LoopTop
    \/ CheckLink
    \/ AcquireCall
    \/ AcquireRead
    \/ AcquirePurge
    \/ AcquireDecide
    \/ AcquireWake
    \/ AcquireAppend
    \/ AcquireReturn
    \/ NormalizeLink
    \/ HttpSend
    \/ HttpReturn
    \/ Emit
    \/ Finish
    \/ RunRaises
    \/ Stop
    \/ Deliver

SpecBatch == InitBatch /\ [][NextBatch]_vars

(* ------------- a run whose thread and event loop keep going ----------- *)
\* one link submitted up to MaxLinks times
LiveLists == {[i \in 1..n |-> <<"a">>] : n \in 1..MaxLinks}

InitLive == Started(LiveLists)

\* the steps of the worker thread other than a failure
WorkerStep ==
    \/ LoopTop
    \/ CheckLink
    \/ AcquireCall
    \/ AcquireRead
    \/ AcquirePurge
    \/ AcquireDecide
    \/ AcquireWake
    \/ AcquireAppend
    \/ AcquireReturn
    \/ NormalizeLink
    \/ HttpSend
    \/ HttpReturn
    \/ Emit
    \/ Finish

NextLive ==
    \/ WorkerStep
    \/ RunRaises
    \/ Stop
    \/ Deliver

\* the started QThread is scheduled until run() returns, and the Qt event
\* loop handles every queued signal
LiveSpec == InitLive /\ [][NextLive]_vars /\ WF_vars(WorkerStep) /\ WF_vars(Deliver)

(* --------------------- normalizer applied repeatedly ------------------ *)
NormAlphabet == {"@", "h", "t", "p", "a"}

InitNorm ==
    /\ now = 0
    /\ calls = 0
    /\ RateLimiterInit(CheckerRequests, CheckerWindow)
    /\ NoRun
    /\ parsed = <<>>
    /\ norm \in {<<s>> : s \in StringsUpTo(NormAlphabet, MaxLen)}

\* the normalization block of check_link run on the previous output
NormalizeAgain ==
    /\ Len(norm) < 3
    /\ norm' = Append(norm, Normalize(norm[Len(norm)]))
    /\ UNCHANGED <<rlvars, calls, parsed, runvars>>

NextNorm == NormalizeAgain

SpecNorm == InitNorm /\ [][NextNorm]_vars

(* ------------------ result built from one fetch outcome --------------- *)
ParseLinks == {HostPath \o <<"a">>}
ParseTexts == StringsUpTo({" ", "x"}, MaxText)

InitParse ==
    /\ now = 0
    /\ calls = 0
    /\ RateLimiterInit(CheckerRequests, CheckerWindow)
    /\ NoRun
    /\ norm = <<>>
    /\ \E l \in ParseLinks, t \in 0..MaxTime :
         \E resp \in Responses(l, ParseTexts) :
            parsed = [link |-> l, resp |-> resp, at |-> t, res |-> <<>>]

\* the body of check_link from the response on
BuildResult ==
    /\ parsed.res = <<>>
    /\ parsed' = [parsed EXCEPT
                     !.res = <<CheckLinkResult(parsed.link, parsed.resp, parsed.at)>>]
    /\ UNCHANGED <<rlvars, calls, norm, runvars>>

NextParse == BuildResult

SpecParse == InitParse /\ [][NextParse]_vars

(* ----------- limiter alone, one caller calling sequentially ----------- *)
InitRL ==
    /\ now = 0
    /\ calls = 0
    /\ \E mr \in 1..PolicyRequests, tw \in 1..PolicyWindow :
         RateLimiterInit(mr, tw)
    /\ NoRun
    /\ NoPure

SeqCall ==
    /\ calls < MaxCalls
    /\ AcqCall(1)
    /\ calls' = calls + 1
    /\ UNCHANGED <<norm, parsed, runvars>>

SeqRead == AcqRead(1) /\ UNCHANGED <<calls, norm, parsed, runvars>>
SeqPurge == AcqPurge(1) /\ UNCHANGED <<calls, norm, parsed, runvars>>
SeqDecide == AcqDecide(1) /\ UNCHANGED <<calls, norm, parsed, runvars>>
SeqWake == AcqWake(1) /\ UNCHANGED <<calls, norm, parsed, runvars>>
SeqAppend == AcqAppend(1) /\ UNCHANGED <<calls, norm, parsed, runvars>>

NextRL ==
    \/ SeqCall
    \/ SeqRead
    \/ SeqPurge
    \/ SeqDecide
    \/ SeqWake
    \/ SeqAppend

SpecRL == InitRL /\ [][NextRL]_vars

\* a thread inside acquire() keeps running: each of its steps is taken
SeqStep == SeqRead \/ SeqPurge \/ SeqDecide \/ SeqWake \/ SeqAppend

LiveRL == InitRL /\ [][NextRL]_vars /\ WF_vars(SeqStep)

(* ------------- limiter shared by several calling threads -------------- *)
ConcCall ==
    /\ calls < MaxCalls
    /\ \E c \in Callers : AcqCall(c)
    /\ calls' = calls + 1
    /\ UNCHANGED <<norm, parsed, runvars>>

ConcRead == (\E c \in Callers : AcqRead(c)) /\ UNCHANGED <<calls, norm, parsed, runvars>>
ConcPurge == (\E c \in Callers : AcqPurge(c)) /\ UNCHANGED <<calls, norm, parsed, runvars>>
ConcDecide == (\E c \in Callers : AcqDecide(c)) /\ UNCHANGED <<calls, norm, parsed, runvars>>
ConcWake == (\E c \in Callers : AcqWake(c)) /\ UNCHANGED <<calls, norm, parsed, runvars>>
ConcAppend == (\E c \in Callers : AcqAppend(c)) /\ UNCHANGED <<calls, norm, parsed, runvars>>

NextConc ==
    \/ ConcCall
    \/ ConcRead
    \/ ConcPurge
    \/ ConcDecide
    \/ ConcWake
    \/ ConcAppend

SpecConc == InitRL /\ [][NextConc]_vars

(* ------------------- TelegramToolsManager.start_check ----------------- *)
\* lines the user may have typed into check_input
InputLines == {<<>>, <<" ">>, <<"a">>, <<"@", "a">>, <<" ", "a">>}
InputTexts == UNION {[1..n -> InputLines] : n \in 0..MaxInput}

\* methods the class TelegramToolsManager defines
Methods ==
    {"__init__", "init_ui", "create_styled_button", "create_styled_text_edit",
     "setup_extract_tab", "setup_check_tab", "setup_compare_tab",
     "setup_help_tab", "load_file_for_extract", "extract_links_from_text",
     "extract_links", "save_extract_results", "start_check", "stop_check",
     "update_check_result", "check_finished", "clear_check_results",
     "save_check_results", "compare_files", "remove_duplicate_links",
     "save_to_file"}

NonBlank(l) == l # <<>>

\* [link.strip() for link in text.split('\n') if link.strip()]
SplitLinks(t) == SelectSeq([i \in 1..Len(t) |-> Strip(t[i])], NonBlank)

\* the window is shown, nothing is being checked; the limiter is in the state
\* LinkChecker.__init__ creates it in
InitStart ==
    /\ now = 0
    /\ calls = 0
    /\ NoPure
    /\ RateLimiterInit(CheckerRequests, CheckerWindow)
    /\ links = <<>>
    /\ is_running = FALSE
    /\ idx = 0
    /\ pc = "none"
    /\ link = <<>>
    /\ result = <<>>
    /\ inflight = {}
    /\ queue = <<>>
    /\ check_results = <<>>
    /\ stop_enabled = FALSE
    /\ ui_finished = FALSE
    /\ signals = <<>>
    /\ fetched = <<>>
    /\ emits = <<>>
    /\ response = <<>>
    /\ trace = <<>>
    /\ stop_at = NoStop
    /\ saved = NoSaved
    /\ latest = <<>>
    /\ \E t \in InputTexts : ui = [pc |-> "idle", text |-> t, wired |-> {}]

\* start_check(), with the answer given to the confirmation prompt.  The two
\* warnings and a declined prompt return; otherwise the results are cleared,
\* the buttons set, LinkChecker(links) is constructed and its signals are
\* connected one after the other.  Evaluating self.handle_check_error raises
\* AttributeError when the class has no such method: the handler ends there,
\* before self.checker.start().
StartCheck ==
    /\ ui.pc = "idle"
    /\ \E reply \in {"yes", "no"} :
         LET found == SplitLinks(ui.text) IN
         IF \A i \in 1..Len(ui.text) : Strip(ui.text[i]) = <<>>
           THEN /\ ui' = [ui EXCEPT !.pc = "warned"]
                /\ UNCHANGED <<links, is_running, idx, pc, check_results,
                               stop_enabled>>
         ELSE IF found = <<>>
           THEN /\ ui' = [ui EXCEPT !.pc = "warned"]
                /\ UNCHANGED <<links, is_running, idx, pc, check_results,
                               stop_enabled>>
         ELSE IF Len(found) > ConfirmOver /\ reply = "no"
           THEN /\ ui' = [ui EXCEPT !.pc = "declined"]
                /\ UNCHANGED <<links, is_running, idx, pc, check_results,
                               stop_enabled>>
         ELSE /\ check_results' = <<>>
              /\ stop_enabled' = TRUE
              /\ links' = found
              /\ is_running' = TRUE
              /\ IF "handle_check_error" \in Methods
                   THEN /\ ui' = [ui EXCEPT !.pc = "started",
                                            !.wired = {"progress", "finished", "error"}]
                        /\ idx' = 1
                        /\ pc' = "loop"
                   ELSE /\ ui' = [ui EXCEPT !.pc = "raised",
                                            !.wired = {"progress", "finished"}]
                        /\ UNCHANGED <<idx, pc>>
    /\ UNCHANGED <<rlvars, aux, link, result, inflight, queue, ui_finished,
                   signals, fetched, emits, response, trace, stop_at, saved,
                   latest>>

NextStart == StartCheck

SpecStart == InitStart /\ [][NextStart]_vars

(* ------------------------------ claims -------------------------------- *)
Range(s) == {s[i] : i \in 1..Len(s)}
IsPrefix(s, t) == Len(s) <= Len(t) /\ s = SubSeq(t, 1, Len(s))
Distinct(s) == \A i, j \in 1..Len(s) : i # j => s[i] # s[j]
Terminal == {"valid", "invalid", "error"}

\* C1: a run over N pairwise-distinct links on which stop() was never called
\* and whose finished signal has been handled leaves exactly N entries in
\* check_results, one per submitted link, each with a terminal status.
C1_CompleteRunHasAllEntries ==
    (ui_finished /\ stop_enabled /\ Distinct(links)) =>
        /\ DOMAIN check_results = Range(links)
        /\ Cardinality(DOMAIN check_results) = Len(links)
        /\ \A k \in DOMAIN check_results : check_results[k].status.kind \in Terminal

\* two distinct links with one address, both recorded, one of them failed
C1_Witness ==
    /\ ui_finished /\ stop_enabled
    /\ Len(links) = 2 /\ Distinct(links)
    /\ Cardinality(DOMAIN check_results) = 2
    /\ \E k \in DOMAIN check_results : check_results[k].status.kind = "error"

\* timestamps of the list that lie in the trailing window [t - w, t]
InWindow(reqs, t, w) == {i \in 1..Len(reqs) : reqs[i] >= t - w /\ reqs[i] <= t}

Ordered(s) == \A i, j \in 1..Len(s) : i <= j => s[i] <= s[j]

\* C2: sequential acquire() calls are never admitted early: the
\* (k+max_requests)-th admission is stamped at least time_window after the
\* k-th one, and the list never holds more than max_requests timestamps
\* inside the trailing window [now - time_window, now].
C2_NoEarlyAdmission ==
    /\ Len(admits) = max_requests + 1
          => admits[max_requests + 1] >= admits[1] + time_window
    /\ Cardinality(InWindow(requests, now, time_window)) <= max_requests

\* a (max_requests+1)-th admission has happened, after a sleep
C2_Witness ==
    /\ Len(admits) = max_requests + 1
    /\ admits[max_requests + 1] >= admits[1] + time_window
    /\ apc[1] = "ret"

\* C3: for every interleaving of several threads inside acquire() the
\* bookkeeping behaves atomically: the list never holds more than
\* max_requests timestamps of the trailing window and stays ordered.
C3_ConcurrentSafe ==
    /\ Cardinality(InWindow(requests, now, time_window)) <= max_requests
    /\ Ordered(requests)

Stopped == stop_at.phase # "none"
FetchedAfterStop == {fetched[k] : k \in (stop_at.nf + 1)..Len(fetched)}
EmittedAfterStop == {emits[k] : k \in (stop_at.ne + 1)..Len(emits)}

\* C4 as claimed: once stop() has set the flag no request is issued any
\* more, and every progress event emitted afterwards is for the link whose
\* request had already been sent when stop() was called.
C4_NoFetchAfterStop ==
    Stopped =>
        /\ FetchedAfterStop = {}
        /\ \A i \in EmittedAfterStop :
              i = stop_at.idx /\ stop_at.phase \in {"sent", "got"}

\* C4 as amended: after stop() the only request still issued and the only
\* progress event still emitted are those of the link whose check_link call
\* had already passed its is_running test when stop() was called; a link
\* that had not passed the test is neither fetched nor reported.
C4_OnlyPassedLinkAfterStop ==
    Stopped =>
        /\ \A i \in FetchedAfterStop : i = stop_at.idx /\ stop_at.phase = "passed"
        /\ \A i \in EmittedAfterStop :
              i = stop_at.idx /\ stop_at.phase \in {"passed", "sent", "got"}

\* stop() came while the worker was past the test and before the request;
\* the request was sent and its event emitted afterwards
C4_Witness ==
    /\ Stopped
    /\ stop_at.phase = "passed"
    /\ FetchedAfterStop = {stop_at.idx}
    /\ EmittedAfterStop = {stop_at.idx}
    /\ pc = "done"

\* C5: the finished signal is emitted only when every submitted link has
\* been dispatched; a run cut short by stop() does not emit it.
C5_FinishedOnlyWhenAllDispatched ==
    "finished" \in Range(signals) => Len(fetched) = Len(links)

\* C6: a fetch that raises makes check_link return a result with status
\* error and the message of the failure; the result is emitted as the
\* progress event of that link, the run moves on to the next link, and
\* neither step emits the error signal.
C6_FetchErrorIsolated ==
    [][ /\ (pc = "wait" /\ pc' # "wait") =>
              /\ pc' = "emit"
              /\ signals' = signals
              /\ response'[1].exc # "" =>
                    /\ result' # <<>>
                    /\ result'[1].status = [kind |-> "error", msg |-> response'[1].exc]
        /\ (pc = "emit" /\ pc' = "loop" /\ response # <<>> /\ response[1].exc # "") =>
              /\ queue' = Append(queue, Progress(links[idx], result))
              /\ result[1].status.kind = "error"
              /\ emits' = Append(emits, idx)
              /\ idx' = idx + 1
              /\ signals' = signals
      ]_vars

\* the first link failed, its event was emitted, a later link was fetched
\* and the run ended with the finished signal
C6_Witness ==
    /\ Len(links) >= 2
    /\ 1 \in DOMAIN emits /\ emits[1] = 1
    /\ links[1] \in DOMAIN check_results
    /\ check_results[links[1]].status.kind = "error"
    /\ Len(fetched) = Len(links)
    /\ signals = <<"finished">>

\* C7: at most MaxWorkers requests are in flight at any time.
C7_AtMostFiveInFlight == Cardinality(inflight) <= MaxWorkers

\* the sixth link of a batch is in flight
C7_Witness == pc = "wait" /\ idx = MaxWorkers + 1 /\ inflight = {idx}

\* C8 as claimed: the steps of a link happen in the order normalize,
\* acquire, fetch, emit.
C8_NormalizeBeforeAcquire ==
    IsPrefix(trace, <<"normalize", "acquire", "fetch", "emit">>)

\* C8 as amended: the steps of a link happen in the order acquire,
\* normalize, fetch, emit.
C8_AcquireNormalizeFetchEmit ==
    IsPrefix(trace, <<"acquire", "normalize", "fetch", "emit">>)

\* a link has gone through all four steps
C8_Witness == trace = <<"acquire", "normalize", "fetch", "emit">>

\* C9: for a fetch that returned a page, the status is valid if and only if
\* the title element was found, whatever the extra-info element, and the
\* name is the (stripped) title text when it was found and the placeholder
\* otherwise.
C9_ValidIffTitle ==
    (parsed # <<>> /\ parsed.res # <<>> /\ parsed.resp.exc = "") =>
        LET r == parsed.res[1]
            title == parsed.resp.title
        IN  /\ r.status.kind \in {"valid", "invalid"}
            /\ r.status.kind = "valid" <=> title.found
            /\ title.found => r.name = Strip(title.text)
            /\ ~title.found => r.name = Unknown

\* a page with an empty title element and no extra-info element is valid
C9_Witness ==
    /\ parsed # <<>> /\ parsed.res # <<>> /\ parsed.resp.exc = ""
    /\ parsed.resp.title = Tag(<<>>)
    /\ ~parsed.resp.extra.found
    /\ parsed.res[1].status.kind = "valid"

\* C10: normalizing the normalizer's own output returns it unchanged.
C10_NormalizeIdempotent == Len(norm) = 3 => norm[3] = norm[2]

\* '@'-link: rewritten by the first application, kept by the second
C10_Witness ==
    /\ Len(norm) = 3
    /\ StartsWith(norm[1], <<"@">>)
    /\ norm[2] # norm[1]
    /\ norm[3] = norm[2]

(* ---- C11 ---- *)
Occurrences(k) == {i \in 1..Len(links) : links[i] = k}

\* check_results as it was when stop() was called and when run() failed
Snapshots == Range(saved.stop) \cup Range(saved.fail)

\* C11 as stated: after the run has terminated, every entry that was recorded
\* when stop() was called or when the run-level failure occurred is still
\* present with the same value.
C11_RecordedEntriesUnaltered ==
    pc = "done" =>
        \A s \in Snapshots : \A k \in DOMAIN s :
            k \in DOMAIN check_results /\ check_results[k] = s[k]

\* C11 as the code has it: neither stop() nor a run-level failure removes an
\* entry, and an entry recorded before either of them keeps its value unless
\* its link was submitted more than once (the progress event of a later
\* occurrence, in flight or queued at that moment, overwrites it).
C11_RecordedEntriesKept ==
    \A s \in Snapshots : \A k \in DOMAIN s :
        /\ k \in DOMAIN check_results
        /\ check_results[k] # s[k] => Cardinality(Occurrences(k)) > 1

\* a run stopped with an entry recorded, later failed, and a further link was
\* recorded after both
C11_Witness ==
    /\ pc = "done"
    /\ queue = <<>>
    /\ saved.stop # <<>> /\ saved.fail # <<>>
    /\ saved.stop[1] # <<>> /\ saved.fail[1] # <<>>
    /\ DOMAIN saved.fail[1] # DOMAIN check_results
    /\ \A k \in DOMAIN saved.stop[1] : check_results[k] = saved.stop[1][k]

(* ---- C12 ---- *)
\* C12 as stated: once an entry for an original link is present with a
\* terminal status, no later step of the run changes or removes it.
C12_EntryNeverMutated ==
    [][\A k \in DOMAIN check_results :
          k \in DOMAIN check_results' /\ check_results'[k] = check_results[k]]_vars

\* C12 as the code has it: every entry has a terminal status, no step removes
\* an entry, and a step changes an entry only for a link that was submitted
\* more than once (the result of a later occurrence replaces it); the entry of
\* a link submitted once is written exactly once.
C12_EntryMutatedOnlyByDuplicate ==
    [][/\ \A k \in DOMAIN check_results' :
             check_results'[k].status.kind \in Terminal
       /\ \A k \in DOMAIN check_results :
             /\ k \in DOMAIN check_results'
             /\ check_results'[k] # check_results[k]
                   => Cardinality(Occurrences(k)) > 1]_vars

\* both occurrences of a link and a link submitted once are recorded
C12_Witness ==
    /\ Len(links) = 3 /\ links[1] = links[3] /\ links[2] # links[1]
    /\ Len(emits) = 3
    /\ queue = <<>>
    /\ DOMAIN check_results = Range(links)

(* ---- C13 ---- *)
\* C13: when the submitted sequence contains a link more than once, a run
\* that completes has fetched every occurrence, and the aggregator holds
\* exactly one entry per distinct original link, each the result of the
\* occurrence of that link that finished last.
C13_DuplicatesLastWriteWins ==
    ui_finished /\ ~Stopped =>
        /\ fetched = [i \in 1..Len(links) |-> i]
        /\ DOMAIN check_results = Range(links)
        /\ Cardinality(DOMAIN check_results) = Cardinality(Range(links))
        /\ check_results = latest

\* three links, two distinct, completed: two entries
C13_Witness ==
    /\ ui_finished /\ ~Stopped
    /\ Len(links) = 3 /\ links[1] = links[2] /\ links[3] # links[1]
    /\ Len(fetched) = 3
    /\ Cardinality(DOMAIN check_results) = 2
    /\ check_results[links[1]].status.kind = "error"

C15_OneTerminalSignal ==
    /\ [][/\ Len(signals') <= 1
          /\ (signals' # <<>>) <=> (pc' = "done")
          /\ signals # <<>> => emits' = emits /\ signals' = signals]_vars
    /\ <>(pc = "done" /\ Len(signals) = 1)

\* a run that reported a link and then failed: the error signal alone
C15_Witness ==
    /\ pc = "done" /\ signals = <<"error">>
    /\ Len(emits) = 1 /\ Len(links) = 3
    /\ queue = <<>>

(* ---- C16 ---- *)
\* C16: a call to acquire() with max_requests >= 1 returns as long as the
\* clock can still advance, the list grows only by the one timestamp the
\* returning call appends, and a caller that slept starts over at the clock
\* read, so the timestamp it appends was read after it woke.
C16_AcquireReturns ==
    /\ [][/\ Len(requests') > Len(requests) =>
                /\ apc[1] = "append" /\ apc'[1] = "ret"
                /\ requests' = Append(requests, acur[1])
          /\ apc'[1] = "ret" /\ apc[1] # "ret" =>
                /\ requests' = Append(requests, acur[1])
                /\ acur[1] >= awake[1]
          /\ apc[1] = "sleep" /\ apc'[1] # "sleep" => apc'[1] = "read"]_vars
    /\ (apc[1] = "read") ~> (apc[1] = "ret" \/ (apc[1] = "sleep" /\ awake[1] > MaxTime))

\* a call that slept has returned; its timestamp is not older than its wake-up
C16_Witness ==
    /\ apc[1] = "ret"
    /\ awake[1] > 0
    /\ requests # <<>> /\ requests[Len(requests)] >= awake[1]
    /\ calls > max_requests

(* ---- C17 ---- *)
\* C17: when start_check is given at least one link and the prompt is not
\* declined, it has wired the progress, finished and error handlers and the
\* worker thread is running.
C17_StartCheckStartsRun ==
    ui.pc \in {"started", "raised"} =>
        /\ ui.wired = {"progress", "finished", "error"}
        /\ pc # "none"

(* ---- C18 ---- *)
\* C18: after stop() at most one further HTTP fetch is started and at most
\* one further progress event is emitted, however many links remain.
C18_AtMostOneMoreAfterStop ==
    Stopped =>
        /\ Len(fetched) - stop_at.nf <= 1
        /\ Len(emits) - stop_at.ne <= 1

\* stopped at the first of three links, which was still fetched and reported
C18_Witness ==
    /\ Stopped /\ pc = "done"
    /\ Len(links) = 3 /\ stop_at.idx = 1
    /\ stop_at.nf = 0 /\ Len(fetched) = 1
    /\ stop_at.ne = 0 /\ Len(emits) = 1

(* ---- C19 ---- *)
\* C19: the i-th progress event is for the i-th submitted link, fetches are
\* started in submission order, and the fetch of link i+1 is not started
\* before the progress event of link i has been emitted.
C19_SubmissionOrder ==
    /\ \A k \in 1..Len(emits) : emits[k] = k
    /\ \A k \in 1..Len(fetched) : fetched[k] = k
    /\ Len(fetched) <= Len(emits) + 1
    /\ pc \in {"acquire", "norm", "get"} => Len(emits) = idx - 1

\* the third fetch is about to start, two events emitted, the first one failed
C19_Witness ==
    /\ pc = "get" /\ idx = 3
    /\ emits = <<1, 2>> /\ fetched = <<1, 2>>
    /\ links[1] # links[2]
    /\ latest[links[1]].status.kind = "error"

====
